---- MODULE Spec2Model ----
(***************************************************************************)
(* A model of get-license-helper (src/src/main.rs): the batch run of main  *)
(* over the dependency records of a cargo-license report, get_license's    *)
(* candidate/ref search, and the RawFilesURL resolver.                     *)
(*                                                                         *)
(* Spec is the run of main: the records of the report are taken one at a   *)
(* time, each network request answers with one of the outcomes the code    *)
(* distinguishes, and the license directory may hold a file of an earlier  *)
(* run.  SpecUrl is the resolver alone, over a larger set of repository    *)
(* URLs.  Filesystem calls (create_dir_all, metadata, File::create) are    *)
(* taken to succeed.  The variables marked "history" record what the run   *)
(* did; the code does not read them.                                       *)
(*                                                                         *)
(* Strings are sequences of atoms.  In a URL an atom is one punctuation    *)
(* character ("/", ".", "-") or a maximal run of other characters; in a    *)
(* license expression it is an identifier ("MIT", "Apache-2.0") or a       *)
(* connective (" OR ", " WITH ", "/").  Every pattern the code matches     *)
(* ("https://github.com/", ".git", "/tree/master/", " OR ", "Apache-2.0")  *)
(* is a whole number of atoms and cannot match across a part of an atom,   *)
(* so prefix, suffix and substring tests on atoms agree with the tests on  *)
(* characters.                                                             *)
(***************************************************************************)
EXTENDS Integers, Sequences, FiniteSets, TLC

VARIABLES
    pc,        \* control point of main / get_license
    di,        \* number of dependency records taken from the input so far
    elem,      \* the record `e` being processed (main.rs:194)
    repo_url,  \* main's repo_url: the repository or the placeholder (main.rs:195)
    url_raw,   \* the RawFilesURL of the current record (main.rs:201)
    alts,      \* the alternatives of license.split(" OR ") not yet visited
    license,   \* get_license's `license` argument of the call in progress
    li,        \* index of 'outer loop in license_names (main.rs:100)
    vi,        \* index of the inner loop in versions (main.rs:101)
    success,   \* get_license's `success` (main.rs:70,107)
    fs,        \* the files of license_dir: local path -> content
    panicAt,   \* the panic site hit, "" when none
    depLines,  \* history: console lines main printed for the current record itself
    hist,      \* history: one entry per alternative visited for the current record
    call,      \* history: the get_license call in progress
    fatal,     \* history: a transport-level error has been returned to get_license
    url        \* the state of the resolver specification SpecUrl

vars == <<pc, di, elem, repo_url, url_raw, alts, license, li, vi, success, fs,
          panicAt, depLines, hist, call, fatal, url>>

(***************************************************************************)
(* Option<T>: None is the empty sequence, Some(x) the one-element one.     *)
(***************************************************************************)
None == <<>>
Some(x) == <<x>>

(***************************************************************************)
(* str methods, on sequences of atoms.                                     *)
(***************************************************************************)
starts_with(s, p) ==
    /\ Len(p) <= Len(s)
    /\ SubSeq(s, 1, Len(p)) = p

ends_with(s, p) ==
    /\ Len(p) <= Len(s)
    /\ SubSeq(s, Len(s) - Len(p) + 1, Len(s)) = p

\* str::trim_end_matches: the suffix is removed repeatedly.
RECURSIVE trim_end_matches(_, _)
trim_end_matches(s, p) ==
    IF p # <<>> /\ ends_with(s, p)
    THEN trim_end_matches(SubSeq(s, 1, Len(s) - Len(p)), p)
    ELSE s

\* str::strip_prefix: Some(rest) or None.
strip_prefix(s, p) ==
    IF starts_with(s, p) THEN Some(SubSeq(s, Len(p) + 1, Len(s))) ELSE None

\* The positions at which p occurs in s.
Occurrences(s, p) ==
    {i \in 1..(Len(s) - Len(p) + 1) : SubSeq(s, i, i + Len(p) - 1) = p}

Min(S) == CHOOSE x \in S : \A y \in S : x <= y

\* str::split_once: split at the first occurrence, Some(<<before, after>>) or None.
split_once(s, p) ==
    IF Occurrences(s, p) = {} THEN None
    ELSE LET i == Min(Occurrences(s, p))
         IN  Some(<<SubSeq(s, 1, i - 1), SubSeq(s, i + Len(p), Len(s))>>)

\* str::split: the pieces between the occurrences of p, scanning from the left.
RECURSIVE split(_, _)
split(s, p) ==
    LET sp == split_once(s, p)
    IN  IF sp = None THEN <<s>> ELSE <<sp[1][1]>> \o split(sp[1][2], p)

\* str::to_lowercase, atom by atom.
LowerAtom(a) ==
    CASE a = "LICENSE" -> "license"
      [] a = "LICENCE" -> "licence"
      [] a = "License" -> "license"
      [] a = "Licence" -> "licence"
      [] a = "APACHE"  -> "apache"
      [] a = "Apache"  -> "apache"
      [] a = "BSD"     -> "bsd"
      [] a = "0BSD"    -> "0bsd"
      [] a = "BOOST"   -> "boost"
      [] a = "BST"     -> "bst"
      [] a = "ISC"     -> "isc"
      [] a = "MIT"     -> "mit"
      [] a = "ZLIB"    -> "zlib"
      [] a = "COPYING" -> "copying"
      [] OTHER         -> a

to_lowercase(s) == [i \in 1..Len(s) |-> LowerAtom(s[i])]

(***************************************************************************)
(* The candidate file name tables (main.rs:11-33).                         *)
(***************************************************************************)
DEFAULT == << <<"LICENSE">>, <<"LICENCE">> >>
APACHE ==
    << <<"LICENSE", "-", "APACHE">>,
       <<"LICENSE", "-", "Apache">>,
       <<"License", "-", "Apache", "-", "2", ".", "0">>,
       <<"LICENCE", "-", "APACHE">>,
       <<"LICENCE", "-", "Apache">>,
       <<"Licence", "-", "Apache", "-", "2", ".", "0">> >>
BSD2 == << <<"LICENSE", "-", "BSD">>, <<"LICENCE", "-", "BSD">> >>
BSD3 == << <<"LICENSE", "-", "BSD">>, <<"LICENCE", "-", "BSD">> >>
BSL ==
    << <<"LICENSE", "-", "BOOST">>,
       <<"LICENSE", "-", "BST">>,
       <<"LICENCE", "-", "BOOST">>,
       <<"LICENCE", "-", "BST">> >>
CC0 == << <<"LICENSE">>, <<"LICENCE">> >>
ISC == << <<"LICENSE", "-", "ISC">>, <<"LICENCE", "-", "ISC">> >>
MIT == << <<"LICENSE", "-", "MIT">>, <<"LICENCE", "-", "MIT">> >>
MPL_2 == << <<"LICENSE">>, <<"LICENCE">> >>
ZERO_BSD == << <<"LICENSE", "-", "0BSD">>, <<"LICENCE", "-", "0BSD">> >>
ZLIB == << <<"LICENSE", "-", "ZLIB">>, <<"LICENCE", "-", "ZLIB">> >>

(***************************************************************************)
(* RawFilesURL (main.rs:126-173).                                          *)
(***************************************************************************)
GITLAB_PREFIX == <<"https:", "/", "/", "gitlab", ".">>
GITHUB_PREFIX == <<"https:", "/", "/", "github", ".", "com", "/">>
RAW_GITHUB == <<"https:", "/", "/", "raw", ".", "githubusercontent", ".", "com", "/">>
TREE_MASTER == <<"/", "tree", "/", "master", "/">>
DOT_GIT == <<".", "git">>
GITLAB_RAW == <<"/", "-", "/", "raw">>

\* The result of a call that may panic: the value, or the panic.
Returned(v) == [panic |-> FALSE, value |-> v]
Panicked == [panic |-> TRUE, value |-> None]

\* Option::unwrap applied to strip_prefix's result, then the github arm's result.
GithubRaw(root, subdirectory) ==
    LET stripped == strip_prefix(root, GITHUB_PREFIX)
    IN  IF stripped = None
        THEN Panicked
        ELSE Returned(Some([base |-> RAW_GITHUB \o stripped[1],
                            subdirectory |-> subdirectory]))

\* A plausible slip: a host that is not GitLab's is taken for GitHub's.
from_repo_url_AnyHost(repo_url0) ==
    LET trimmed == trim_end_matches(repo_url0, DOT_GIT)
    IN  IF starts_with(trimmed, GITLAB_PREFIX)
        THEN Returned(Some([base |-> trimmed \o GITLAB_RAW, subdirectory |-> None]))
        ELSE Returned(Some([base |-> RAW_GITHUB \o trimmed, subdirectory |-> None]))

\* RawFilesURL::from_repo_url: Option<RawFilesURL>, or the unwrap's panic.
from_repo_url(repo_url0) ==
    LET trimmed == trim_end_matches(repo_url0, DOT_GIT)
        sp == split_once(trimmed, TREE_MASTER)
    IN  IF starts_with(trimmed, GITLAB_PREFIX)
        THEN Returned(Some([base |-> trimmed \o GITLAB_RAW, subdirectory |-> None]))
        ELSE IF starts_with(trimmed, GITHUB_PREFIX)
        THEN IF sp # None
             THEN GithubRaw(sp[1][1], Some(sp[1][2]))
             ELSE GithubRaw(trimmed, None)
        ELSE Returned(None)

\* RawFilesURL::format.
format(self, version, filename) ==
    IF self.subdirectory # None
    THEN self.base \o <<"/">> \o version \o <<"/">> \o self.subdirectory[1]
                   \o <<"/">> \o filename
    ELSE self.base \o <<"/">> \o version \o <<"/">> \o filename

(***************************************************************************)
(* The input: dependency records (Elem, main.rs:49-58).  The records of    *)
(* the report are drawn one at a time, when the loop of main reaches them. *)
(***************************************************************************)
MaxDeps == 2
MaxAlts == 2

OR == <<" OR ">>

RECURSIVE Join(_)
Join(ids) ==
    IF Len(ids) = 1 THEN ids[1] ELSE ids[1] \o OR \o Join(Tail(ids))

\* Identifiers given alone: one the wildcard arm takes, the one that asks for no
\* file, one that is unknown.
SingleIds == { <<"Apache-2.0", "/", "MIT">>, <<"Unlicense">>, <<"Foo-9.9">> }

\* The identifiers combined into expressions of several alternatives: two of the
\* table, the second with DEFAULT as its table.
AltIds == { <<"MIT">>, <<"CC0-1.0">> }

\* Expressions that mix an identifier of the table with the others.
MixedExprs ==
    { <<"Foo-9.9", " OR ", "MIT">>, <<"MIT", " OR ", "Unlicense">> }

RECURSIVE SeqsUpTo(_, _)
SeqsUpTo(S, n) ==
    IF n = 0 THEN {}
    ELSE {<<x>> : x \in S}
         \cup {<<x>> \o t : x \in S, t \in SeqsUpTo(S, n - 1)}

LicenseExprs ==
    SingleIds \cup MixedExprs \cup {Join(ids) : ids \in SeqsUpTo(AltIds, MaxAlts)}

Names == {"serde"}
Versions == {None, Some(<<"1", ".", "0">>)}
LicenseFiles == {None, Some(<<"LICENSE">>)}
Repositories ==
    { None,
      Some(<<"https:", "/", "/", "bitbucket", ".", "org", "/", "foo", "/", "bar">>),
      Some(<<"https:", "/", "/", "github", ".", "com", "/", "foo", "/", "bar", ".", "git">>),
      Some(<<"https:", "/", "/", "github", ".", "com", "/", "tree", "/", "master", "/", "bar">>) }

Elems ==
    { e \in [name : Names, version : Versions, repository : Repositories,
             license : {None} \cup {Some(x) : x \in LicenseExprs},
             license_file : LicenseFiles] :
        e.license # None => e.license_file = None }

(***************************************************************************)
(* The license directory.  A file is absent, a regular file of size 0      *)
(* ("empty") or a regular file with content: "old" (there before the run), *)
(* "new" (a downloaded body), "partial" (what a failed transfer left, of   *)
(* unknown size; the run is over by then).                                 *)
(***************************************************************************)
\* output_dir.join(format!("{}-{}", elem.name, license[0]))
local_path(e, lic) == <<e.name, "-">> \o lic[1]

\* A plausible slip: the size test inverted.
AlreadyDownloaded_SizeInverted(p) == fs[p] = "empty"

\* The one path at which an earlier run may have left a file.
LeftBehind == {local_path(e, MIT) : e \in Elems}

\* local_path.is_file() && fs::metadata(&local_path)?.len() > 0
AlreadyDownloaded(p) == fs[p] \in {"old", "new"}

(***************************************************************************)
(* main's dispatch on one alternative of the license expression            *)
(* (main.rs:206-232): the table to fetch with, nothing, or the report of   *)
(* an identifier that is not implemented.                                  *)
(***************************************************************************)
Fetch(table) == [kind |-> "get", license |-> table]
Nothing == [kind |-> "nothing", license |-> <<>>]
NotImplemented == [kind |-> "notimpl", license |-> <<>>]

\* A plausible slip: an unknown identifier falls back to the generic names.
WildcardArm_FallsBack(l) ==
    IF starts_with(l, <<"Apache-2.0">>) THEN Fetch(APACHE) ELSE Fetch(DEFAULT)

\* The two catch-all arms (main.rs:225-231).
WildcardArm(l) ==
    IF starts_with(l, <<"Apache-2.0">>) THEN Fetch(APACHE) ELSE NotImplemented

LicenseArm(l) ==
    CASE l \in {<<"Apache-2.0">>, <<"Apache-2.0", " WITH ", "LLVM-exception">>}
                               -> Fetch(APACHE)
      [] l = <<"MIT">>          -> Fetch(MIT)
      [] l = <<"BSD-3-Clause">> -> Fetch(BSD3)
      [] l = <<"BSD-2-Clause">> -> Fetch(BSD2)
      [] l = <<"0BSD">>         -> Fetch(ZERO_BSD)
      [] l = <<"CC0-1.0">>      -> Fetch(CC0)
      [] l = <<"MPL-2.0">>      -> Fetch(MPL_2)
      [] l = <<"BSD">>          -> Fetch(BSD3)
      [] l = <<"ISC">>          -> Fetch(ISC)
      [] l = <<"BSL-1.0">>      -> Fetch(BSL)
      [] l = <<"Zlib">>         -> Fetch(ZLIB)
      [] l = <<"Unlicense">>    -> Nothing
      [] OTHER                  -> WildcardArm(l)

\* The tables get_license is called with for record e, and the local paths the
\* records of Elems can write.
TablesOf(e) ==
    IF e.license = None
    THEN {IF e.license_file # None THEN <<e.license_file[1]>> ELSE DEFAULT}
    ELSE LET ls == split(e.license[1], OR)
         IN  {LicenseArm(ls[i]).license :
                i \in {j \in 1..Len(ls) : LicenseArm(ls[j]).kind = "get"}}

Paths == UNION {{local_path(e, t) : t \in TablesOf(e)} : e \in Elems}

(***************************************************************************)
(* get_license's candidate names and refs (main.rs:74-99).                 *)
(***************************************************************************)
\* A plausible slip: the lower-case name listed next to each original one.
Variants_Interleaved(l) ==
    << l,
       to_lowercase(l),
       l \o <<".", "txt">>,
       to_lowercase(l) \o <<".", "txt">>,
       l \o <<".", "md">>,
       to_lowercase(l) \o <<".", "md">> >>

\* The six names tried for one base name (main.rs:83-90).
Variants(l) ==
    << l,
       l \o <<".", "txt">>,
       l \o <<".", "md">>,
       to_lowercase(l),
       to_lowercase(l) \o <<".", "txt">>,
       to_lowercase(l) \o <<".", "md">> >>

RECURSIVE FlatMap(_)
FlatMap(names) ==
    IF names = <<>> THEN <<>> ELSE Variants(Head(names)) \o FlatMap(Tail(names))

license_names(lic) ==
    FlatMap(IF lic # DEFAULT THEN lic \o DEFAULT ELSE lic)

versions(e) ==
    IF e.version # None
    THEN <<e.version[1], <<"master">>, <<"main">>>>
    ELSE <<<<"master">>, <<"main">>>>

(***************************************************************************)
(* History of one alternative and of one get_license call.                 *)
(***************************************************************************)
Visited(l, arm) ==
    [l |-> l, license |-> arm.license,
     calls |-> IF arm.kind = "get" THEN 1 ELSE 0,
     requested |-> FALSE, wrote |-> FALSE,
     lines |-> IF arm.kind = "notimpl" THEN <<"notimpl">> ELSE <<>>,
     pre |-> "n/a"]

NoCall == [pre |-> "n/a", nreq |-> 0, lastReq |-> None, writes |-> 0, succAt |-> 0]

NoRaw == [base |-> <<>>, subdirectory |-> None]
NoElem ==
    [name |-> "", version |-> None, repository |-> None, license |-> None,
     license_file |-> None]
NoUrl == [pc |-> "off", repo |-> <<>>, raw |-> Returned(None), ref |-> <<>>,
          file |-> <<>>, out |-> None]

Last(h) == h[Len(h)]
SetLast(h, x) == [h EXCEPT ![Len(h)] = x]

\* A plausible slip: the loop over the alternatives left after the first one.
AfterAlt_FirstOnly(rest) == "main_loop"

\* Where main continues after one alternative: the next one, or the next record.
AfterAlt(rest) == IF rest = <<>> THEN "main_loop" ELSE "alt_loop"

(***************************************************************************)
(* The run.                                                                *)
(***************************************************************************)
Init ==
    /\ pc = "main_loop"
    /\ di = 0
    /\ elem = NoElem
    /\ repo_url = <<>>
    /\ url_raw = NoRaw
    /\ alts = <<>>
    /\ license = <<>>
    /\ li = 1
    /\ vi = 1
    /\ success = FALSE
    /\ fs \in {f \in [Paths -> {"absent", "empty", "old"}] :
                 \A p \in Paths : f[p] # "absent" => p \in LeftBehind}
    /\ panicAt = ""
    /\ depLines = <<>>
    /\ hist = <<>>
    /\ call = NoCall
    /\ fatal = FALSE
    /\ url = NoUrl

\* format!("No repo for crate {}!", e.name)
Placeholder(name) ==
    <<"No", " ", "repo", " ", "for", " ", "crate", " ", name, "!">>

\* One iteration of `for e in dependencies` up to the first alternative or the
\* call of get_license (main.rs:194-203, 235-243).
NextDep ==
    /\ pc = "main_loop"
    /\ di < MaxDeps
    /\ \E e \in Elems :
         LET ru == IF e.repository # None THEN e.repository[1] ELSE Placeholder(e.name)
             r == from_repo_url(ru)
             lic == IF e.license_file # None THEN <<e.license_file[1]>> ELSE DEFAULT
         IN  /\ di' = di + 1
             /\ elem' = e
             /\ repo_url' = ru
             /\ IF r.panic
                THEN /\ pc' = "panicked"
                     /\ panicAt' = "from_repo_url"
                     /\ UNCHANGED <<url_raw, alts, license>>
                     /\ depLines' = <<>>
                     /\ hist' = <<>>
                ELSE IF r.value = None
                THEN /\ pc' = "main_loop"
                     /\ depLines' = <<"unfamiliar">>
                     /\ hist' = <<>>
                     /\ UNCHANGED <<url_raw, alts, license, panicAt>>
                ELSE /\ url_raw' = r.value[1]
                     /\ depLines' = <<>>
                     /\ panicAt' = panicAt
                     /\ IF e.license # None
                        THEN /\ alts' = split(e.license[1], OR)
                             /\ pc' = "alt_loop"
                             /\ hist' = <<>>
                             /\ UNCHANGED license
                        ELSE /\ alts' = <<>>
                             /\ pc' = "get_license"
                             /\ license' = lic
                             /\ hist' = <<Visited(None, Fetch(lic))>>
    /\ UNCHANGED <<li, vi, success, fs, call, fatal, url>>

\* One iteration of `for l in license.split(" OR ")` up to the call of
\* get_license (main.rs:204-232).
NextAlt ==
    /\ pc = "alt_loop"
    /\ alts # <<>>
    /\ LET l == Head(alts)
           arm == LicenseArm(l)
       IN  /\ alts' = Tail(alts)
           /\ hist' = Append(hist, Visited(Some(l), arm))
           /\ IF arm.kind = "get"
              THEN /\ license' = arm.license
                   /\ pc' = "get_license"
              ELSE /\ license' = license
                   /\ pc' = AfterAlt(Tail(alts))
    /\ UNCHANGED <<di, elem, repo_url, url_raw, li, vi, success, fs, panicAt,
                   depLines, call, fatal, url>>

\* get_license up to its loops (main.rs:66-71).
Enter ==
    /\ pc = "get_license"
    /\ IF license = <<>>
       THEN /\ pc' = "panicked"
            /\ panicAt' = "assert"
            /\ UNCHANGED <<success, call, hist, li, vi>>
       ELSE /\ success' = AlreadyDownloaded(local_path(elem, license))
            /\ pc' = IF success' THEN "report" ELSE "fetch"
            /\ li' = 1
            /\ vi' = 1
            /\ call' = [NoCall EXCEPT !.pre = fs[local_path(elem, license)]]
            /\ hist' = SetLast(hist, [Last(hist) EXCEPT
                                        !.pre = fs[local_path(elem, license)]])
            /\ UNCHANGED panicAt
    /\ UNCHANGED <<di, elem, repo_url, url_raw, alts, license, fs, depLines,
                   fatal, url>>

\* What a response does to the call (main.rs:103-110): where control goes, the
\* loop indices, `success`, and the content written to local_path ("" for no
\* write).  The outcomes: "get_err" (reqwest::blocking::get fails),
\* "status_fail" (a status that is no success), "ok_body" (a success status
\* whose body is copied to the file), "copy_err" (a success status whose body
\* transfer fails after File::create).
Outcomes == {"get_err", "status_fail", "ok_body", "copy_err"}

\* A status that is no success: the next ref, the next name, or the end of the
\* loops (main.rs:100-101, 104).
OnStatusFail ==
    IF vi < Len(versions(elem))
    THEN [pc |-> "fetch", li |-> li, vi |-> vi + 1, success |-> success, write |-> ""]
    ELSE IF li < Len(license_names(license))
    THEN [pc |-> "fetch", li |-> li + 1, vi |-> 1, success |-> success, write |-> ""]
    ELSE [pc |-> "report", li |-> li, vi |-> vi, success |-> success, write |-> ""]

\* A plausible slip: the transport error swallowed like a missing file.
OnGetErr_Swallowed == OnStatusFail

\* reqwest::blocking::get(&url)? fails (main.rs:103).
OnGetErr ==
    [pc |-> "aborted", li |-> li, vi |-> vi, success |-> success, write |-> ""]

\* A plausible slip: the loops go on after the file is written.
OnSuccess_NoBreak == [OnStatusFail EXCEPT !.success = TRUE, !.write = "new"]

\* A success status whose body is copied: break 'outer (main.rs:104-108).
OnSuccess ==
    [pc |-> "report", li |-> li, vi |-> vi, success |-> TRUE, write |-> "new"]

\* A success status, File::create, then resp.copy_to(&mut file)? fails
\* (main.rs:105-106).
OnCopyErr ==
    [pc |-> "aborted", li |-> li, vi |-> vi, success |-> success, write |-> "partial"]

Respond(outcome) ==
    CASE outcome = "get_err"     -> OnGetErr
      [] outcome = "status_fail" -> OnStatusFail
      [] outcome = "ok_body"     -> OnSuccess
      [] outcome = "copy_err"    -> OnCopyErr

\* One iteration of the inner loop: one blocking GET and what follows it
\* (main.rs:100-111).
Request ==
    /\ pc = "fetch"
    /\ \E outcome \in Outcomes :
         LET name == license_names(license)[li]
             version == versions(elem)[vi]
             r == Respond(outcome)
             req == [name |-> name, version |-> version,
                     url |-> format(url_raw, version, name)]
             wrote == r.write # ""
         IN  /\ pc' = r.pc
             /\ li' = r.li
             /\ vi' = r.vi
             /\ success' = r.success
             /\ fs' = IF wrote
                      THEN [fs EXCEPT ![local_path(elem, license)] = r.write]
                      ELSE fs
             /\ fatal' = (fatal \/ outcome \in {"get_err", "copy_err"})
             /\ call' = [call EXCEPT
                           !.nreq = @ + 1,
                           !.lastReq = Some(req),
                           !.writes = IF wrote THEN @ + 1 ELSE @,
                           !.succAt = IF outcome \in {"ok_body", "copy_err"}
                                      THEN call.nreq + 1 ELSE @]
             /\ hist' = SetLast(hist, [Last(hist) EXCEPT
                                         !.requested = TRUE,
                                         !.wrote = @ \/ wrote])
    /\ UNCHANGED <<di, elem, repo_url, url_raw, alts, license, panicAt, depLines, url>>

\* The end of get_license: its console line and its return to main
\* (main.rs:113-123).
Report ==
    /\ pc = "report"
    /\ IF ~success /\ elem.repository = None
       THEN /\ pc' = "panicked"
            /\ panicAt' = "unwrap"
            /\ UNCHANGED <<hist, call, license, li, vi, success>>
       ELSE /\ hist' = SetLast(hist, [Last(hist) EXCEPT
                          !.lines = Append(@, IF success THEN "path" ELSE "notfound")])
            /\ pc' = AfterAlt(alts)
            /\ call' = NoCall
            /\ license' = <<>>
            /\ li' = 1
            /\ vi' = 1
            /\ success' = FALSE
            /\ UNCHANGED panicAt
    /\ UNCHANGED <<di, elem, repo_url, url_raw, alts, fs, depLines, fatal, url>>

\* The report has no further record: main returns Ok(()) (main.rs:246).
Finish ==
    /\ pc = "main_loop"
    /\ pc' = "done"
    /\ UNCHANGED <<di, elem, repo_url, url_raw, alts, license, li, vi, success, fs,
                   panicAt, depLines, hist, call, fatal, url>>

Next == NextDep \/ NextAlt \/ Enter \/ Request \/ Report \/ Finish

Spec == Init /\ [][Next]_vars

(***************************************************************************)
(* The resolver alone: from_repo_url applied to a repository URL, then     *)
(* format applied to its result, a ref and a file name.                    *)
(***************************************************************************)
MaxGitSuffix == 2

RECURSIVE Repeat(_, _)
Repeat(s, n) == IF n = 0 THEN <<>> ELSE s \o Repeat(s, n - 1)

UrlHosts ==
    { <<"https:", "/", "/", "github", ".", "com">>,
      <<"https:", "/", "/", "gitlab", ".", "example", ".", "com">>,
      <<"https:", "/", "/", "bitbucket", ".", "org">>,
      <<"http:", "/", "/", "github", ".", "com">> }
UrlRepos == { <<>>, <<"/", "foo", "/", "bar">> }
UrlTails ==
    { <<>>,
      <<"/">>,
      <<"/", "tree", "/", "master">>,
      <<"/", "tree", "/", "master", "/">>,
      <<"/", "tree", "/", "master", "/", "sub">>,
      <<"/", "tree", "/", "master", "/", "sub", "/">>,
      <<"/", "tree", "/", "main", "/", "sub">> }
RepoUrls ==
    { h \o r \o t \o Repeat(DOT_GIT, n) :
        h \in UrlHosts, r \in UrlRepos, t \in UrlTails, n \in 0..MaxGitSuffix }
UrlRefs == { <<"master">>, <<"1", ".", "0">> }
UrlFiles == { <<"LICENSE", "-", "MIT">>, <<"license", ".", "md">> }

InitUrl ==
    /\ pc = "off"
    /\ di = 0
    /\ elem = NoElem
    /\ repo_url = <<>>
    /\ url_raw = NoRaw
    /\ alts = <<>>
    /\ license = <<>>
    /\ li = 1
    /\ vi = 1
    /\ success = FALSE
    /\ fs = [p \in Paths |-> "absent"]
    /\ panicAt = ""
    /\ depLines = <<>>
    /\ hist = <<>>
    /\ call = NoCall
    /\ fatal = FALSE
    /\ url \in {[NoUrl EXCEPT !.pc = "start", !.repo = u, !.ref = v, !.file = f] :
                  u \in RepoUrls, v \in UrlRefs, f \in UrlFiles}

\* RawFilesURL::from_repo_url(&repo_url)
UrlResolve ==
    /\ url.pc = "start"
    /\ LET r == from_repo_url(url.repo)
       IN  url' = [url EXCEPT
                     !.raw = r,
                     !.pc = IF r.panic THEN "panicked"
                            ELSE IF r.value = None THEN "unrecognized"
                            ELSE "resolved"]
    /\ UNCHANGED <<pc, di, elem, repo_url, url_raw, alts, license, li, vi, success,
                   fs, panicAt, depLines, hist, call, fatal>>

\* base_url.format(version, &license_name)
UrlFormat ==
    /\ url.pc = "resolved"
    /\ url' = [url EXCEPT
                 !.out = Some(format(url.raw.value[1], url.ref, url.file)),
                 !.pc = "formatted"]
    /\ UNCHANGED <<pc, di, elem, repo_url, url_raw, alts, license, li, vi, success,
                   fs, panicAt, depLines, hist, call, fatal>>

NextUrl == UrlResolve \/ UrlFormat

SpecUrl == InitUrl /\ [][NextUrl]_vars

(***************************************************************************)
(* Properties.  What the claims speak of, stated from their words.         *)
(***************************************************************************)
\* A regular file of non-zero size.
NonEmptyFile == {"old", "new"}

\* The identifiers of the known table, and those taken by the "Apache-2.0" prefix.
TableIds ==
    { <<"Apache-2.0">>, <<"Apache-2.0", " WITH ", "LLVM-exception">>, <<"MIT">>,
      <<"BSD-3-Clause">>, <<"BSD-2-Clause">>, <<"0BSD">>, <<"CC0-1.0">>,
      <<"MPL-2.0">>, <<"BSD">>, <<"ISC">>, <<"BSL-1.0">>, <<"Zlib">> }
InTable(l) == l \in TableIds \/ starts_with(l, <<"Apache-2.0">>)
UnknownId(l) ==
    l \notin TableIds /\ l # <<"Unlicense">> /\ ~starts_with(l, <<"Apache-2.0">>)

\* The alternatives record e declares.
Alternatives(e) == IF e.license = None THEN <<>> ELSE split(e.license[1], OR)
AllInTable(e) ==
    /\ e.license # None
    /\ \A i \in 1..Len(Alternatives(e)) : InTable(Alternatives(e)[i])

\* The repository is absent or matches neither host pattern.
UnrecognizedHost(e) ==
    \/ e.repository = None
    \/ LET u == trim_end_matches(e.repository[1], DOT_GIT)
       IN  ~starts_with(u, GITLAB_PREFIX) /\ ~starts_with(u, GITHUB_PREFIX)

\* from_repo_url gives main a RawFilesURL for record e.
Resolves(e) ==
    /\ e.repository # None
    /\ ~from_repo_url(e.repository[1]).panic
    /\ from_repo_url(e.repository[1]).value # None

\* main is between two records, or the run is over.
BetweenRecords == pc \in {"main_loop", "done"}
\* The i-th alternative of the current record has been dealt with.
Dealt(i) == i < Len(hist) \/ pc \in {"main_loop", "alt_loop", "done"}

\* C1: a get_license call that finds its output path a regular file of non-zero
\* size issues no request, leaves the file as it was and reports success (the
\* line naming the path, not the "not found" line).
C1_Idempotence ==
    /\ (pc = "report" /\ call.pre \in NonEmptyFile) =>
          /\ call.nreq = 0
          /\ call.writes = 0
          /\ success
          /\ fs[local_path(elem, license)] = call.pre
    /\ \A i \in 1..Len(hist) :
          (hist[i].pre \in NonEmptyFile /\ Dealt(i)) =>
             /\ ~hist[i].requested
             /\ ~hist[i].wrote
             /\ hist[i].lines = <<"path">>
             /\ fs[local_path(elem, hist[i].license)] = hist[i].pre

C1_Witness ==
    /\ pc \in {"main_loop", "alt_loop"}
    /\ hist # <<>>
    /\ Last(hist).pre = "old"
    /\ Last(hist).lines = <<"path">>

C3_Original ==
    (/\ di >= 1
     /\ Resolves(elem)
     /\ AllInTable(elem)
     /\ pc \in {"main_loop", "done", "aborted", "panicked"})
    => /\ Len(hist) = Len(Alternatives(elem))
       /\ \A i \in 1..Len(hist) : hist[i].calls = 1

\* C3, amended: for a record whose repository resolves and whose k alternatives
\* are all in the table, the calls are initiated one per alternative in written
\* order, each with the table of its alternative, whatever status the earlier
\* fetches returned; all k of them unless a call returned an error (a
\* transport-level failure), after which no further call is initiated.
C3_CallsPerAlternative ==
    (di >= 1 /\ Resolves(elem) /\ AllInTable(elem)) =>
       /\ Len(hist) <= Len(Alternatives(elem))
       /\ \A i \in 1..Len(hist) :
             /\ hist[i].l = Some(Alternatives(elem)[i])
             /\ hist[i].calls = 1
             /\ hist[i].license # <<>>
       /\ BetweenRecords => Len(hist) = Len(Alternatives(elem))
       /\ (pc \notin {"alt_loop", "get_license", "fetch", "report"} /\ ~BetweenRecords)
             => (pc = "aborted" /\ fatal)

C3_Witness ==
    /\ BetweenRecords
    /\ Resolves(elem)
    /\ AllInTable(elem)
    /\ Len(hist) = 2
    /\ hist[1].lines = <<"notfound">>
    /\ hist[2].lines = <<"path">>
    /\ hist[2].requested

\* C4: a transport-level error ends the run at once with an error exit: no
\* step follows it (no request, no write, no line, no further alternative or
\* record); and nothing else ends the run that way, a status that is no
\* success least of all.
C4_TransportFatal ==
    /\ [](fatal <=> pc = "aborted")
    /\ [][~fatal]_vars

C4_Witness ==
    /\ pc = "aborted"
    /\ alts # <<>>
    /\ call.nreq > 1
    /\ di = 1

\* C5: a record whose repository is absent or of an unrecognized host gets the
\* one "unfamiliar" line and nothing else (no alternative is visited, no call,
\* no request, no write), and main goes on to the next record.
C5_UnfamiliarHost ==
    /\ []((di >= 1 /\ UnrecognizedHost(elem)) =>
            /\ depLines = <<"unfamiliar">>
            /\ hist = <<>>
            /\ call = NoCall
            /\ ~fatal
            /\ pc \in {"main_loop", "done"})
    /\ [][UnrecognizedHost(elem') => fs' = fs]_vars

C5_Witness ==
    /\ di = 2
    /\ pc = "main_loop"
    /\ elem.repository # None
    /\ UnrecognizedHost(elem)
    /\ Len(Alternatives(elem)) = 2
    /\ depLines = <<"unfamiliar">>

AfterScheme(u) == SubSeq(u, 4, Len(u))
NoEmptySegment(s) ==
    /\ s # <<>>
    /\ s[1] # "/"
    /\ s[Len(s)] # "/"
    /\ \A i \in 1..(Len(s) - 1) : ~(s[i] = "/" /\ s[i + 1] = "/")

C7_SingleSeparators ==
    url.pc = "formatted" => NoEmptySegment(AfterScheme(url.out[1]))

\* C8 as stated: for a GitHub-style URL that embeds "tree/<default-branch>/<subpath>"
\* the base is that of the repository root and the subpath is the
\* subdirectory; for any other GitHub-style URL the base is that of the whole
\* URL (a trailing ".git" stripped) and there is no subdirectory.
DefaultBranches == {"master", "main"}
TreeSegment(b) == <<"/", "tree", "/", b, "/">>
GithubStyle(u) == starts_with(trim_end_matches(u, DOT_GIT), GITHUB_PREFIX)
RawBase(root) == RAW_GITHUB \o SubSeq(root, Len(GITHUB_PREFIX) + 1, Len(root))

C8_GithubSubdirectory ==
    (url.pc \notin {"off", "start"} /\ GithubStyle(url.repo)) =>
       LET u == trim_end_matches(url.repo, DOT_GIT)
           bs == {b \in DefaultBranches : Occurrences(u, TreeSegment(b)) # {}}
       IN  /\ ~url.raw.panic
           /\ url.raw.value # None
           /\ IF bs # {}
              THEN \E b \in bs :
                      LET sp == split_once(u, TreeSegment(b))[1]
                      IN  url.raw.value[1] =
                            [base |-> RawBase(sp[1]), subdirectory |-> Some(sp[2])]
              ELSE url.raw.value[1] = [base |-> RawBase(u), subdirectory |-> None]

\* C9: the n-th request of a get_license call is for the name and the ref the
\* stated order puts n-th: names outermost (the license's own, then "LICENSE",
\* "LICENCE"), for each name the original case before the lower case, within a
\* case no extension, ".txt", ".md", and innermost the refs (the declared
\* version when present, "master", "main"); and the call reports "not found"
\* only after all of them.
Generic == << <<"LICENSE">>, <<"LICENCE">> >>
Extensions == << <<>>, <<".", "txt">>, <<".", "md">> >>
OrderedBases == IF license = Generic THEN Generic ELSE license \o Generic
OrderedRefs ==
    (IF elem.version # None THEN <<elem.version[1]>> ELSE <<>>)
        \o << <<"master">>, <<"main">> >>
NthName(n) ==
    LET k == (n - 1) \div Len(OrderedRefs)
        base == OrderedBases[(k \div (2 * Len(Extensions))) + 1]
        v == k % (2 * Len(Extensions))
        cased == IF v < Len(Extensions) THEN base ELSE to_lowercase(base)
    IN  cased \o Extensions[(v % Len(Extensions)) + 1]
NthRef(n) == OrderedRefs[((n - 1) % Len(OrderedRefs)) + 1]
AllRequests == Len(OrderedBases) * 2 * Len(Extensions) * Len(OrderedRefs)

C9_RequestOrder ==
    /\ call.lastReq # None =>
          /\ call.nreq <= AllRequests
          /\ call.lastReq[1].name = NthName(call.nreq)
          /\ call.lastReq[1].version = NthRef(call.nreq)
          /\ call.lastReq[1].url =
                format(url_raw, NthRef(call.nreq), NthName(call.nreq))
    /\ (pc = "report" /\ ~success) => call.nreq = AllRequests

C9_Witness ==
    /\ pc = "report"
    /\ ~success
    /\ elem.version # None
    /\ license = MIT
    /\ call.lastReq[1].name = <<"licence", ".", "md">>
    /\ call.lastReq[1].version = <<"main">>

\* C10: get_license's two panic sites are never reached: every call has a
\* non-empty name list and a record whose repository is present.
C10_NoPanicInGetLicense ==
    /\ panicAt \notin {"assert", "unwrap"}
    /\ pc \in {"get_license", "fetch", "report"} =>
          /\ license # <<>>
          /\ elem.repository # None

C10_Witness ==
    /\ pc = "report"
    /\ ~success
    /\ elem.license = None
    /\ elem.license_file # None

====
